---- MODULE Spec2Model ----
(***************************************************************************)
(* A model of the training entry point (gpt/cli.py, gpt/train.py) and of   *)
(* the corpus preparation script (gpt/convert_wikipedia.py).               *)
(*                                                                         *)
(* Strings the code inspects character by character (tag names, config     *)
(* names, document texts) are tuples of one-character strings.             *)
(*                                                                         *)
(* Spec      : one invocation of `train <config>` from the command line.   *)
(* SpecPrep  : one invocation of prepare_data.                             *)
(***************************************************************************)
EXTENDS Integers, Sequences, FiniteSets

VARIABLES
    \* ---- inputs of `train` (fixed during a run)
    config,          \* the config name typed by the user
    dirty,           \* --dirty
    log_periodicity, \* --log-periodicity
    global_rank,     \* trainer.global_rank of this process
    repo,            \* the git repository the working directory is in
    \* ---- state of the run
    pc,              \* position in cli.train / train.train
    gate,            \* what check_for_repo_versioned_without_uncommited_changes did
    printed,         \* "Unknown config: ..." was printed
    dm_built,        \* WikipediaDataModule(...) was constructed
    model_built,     \* GptLightning(...) was constructed
    run,             \* the `with manager() as run` context
    run_name,        \* result of get_run_name_from_git_tag
    prepared,        \* dm.prepare_data() was called
    batch_idx,       \* index of the batch the engine is at
    steps,           \* training steps that ran
    samples,         \* generations the hook logged
    fitted,          \* trainer.fit returned
    uploads,         \* run.log_artifact calls that completed
    outcome,         \* "running", "returned" or "raised"
    error,           \* the exception that is propagating / was raised
    errorAt,         \* where it was raised
    \* ---- inputs of prepare_data (fixed during a run)
    n_articles, tokenizer, block_size, source,
    \* ---- state of prepare_data
    ppc,             \* position in prepare_data
    mode,            \* how documents were acquired
    texts,           \* the "text" column of ds
    todo,            \* rows ds.map has not processed yet
    tokens,          \* the "tokens" column built by ds.map
    split,           \* result of train_test_split
    disk,            \* what is stored under dataset_uri
    perr             \* the exception prepare_data raised

trainVars == <<config, dirty, log_periodicity, global_rank, repo, pc, gate, printed,
               dm_built, model_built, run, run_name, prepared, batch_idx, steps,
               samples, fitted, uploads, outcome, error, errorAt>>
prepVars == <<n_articles, tokenizer, block_size, source, ppc, mode, texts, todo,
              tokens, split, disk, perr>>
vars == <<trainVars, prepVars>>

None == "None"

----------------------------------------------------------------------------
(* Bounds *)

\* batches the engine runs in one fit
MaxBatches == 2
\* largest --log-periodicity tried
MaxPeriod == 2
\* number of distinct values uuid4() is drawn from
MaxNonce == 2
\* documents the corpus source can supply
MaxDocs == 3
\* largest block_size tried
MaxBlock == 2
\* rows ds.map hands to wikipedia_batch_process at a time
BatchSize == 2

----------------------------------------------------------------------------
(* Characters *)

Digits == {"0", "1", "2", "3", "4", "5", "6", "7", "8", "9"}

UpperCase == <<"A", "B", "C", "D", "E", "F", "G", "H", "I", "J", "K", "L", "M",
               "N", "O", "P", "Q", "R", "S", "T", "U", "V", "W", "X", "Y", "Z">>
LowerCase == <<"a", "b", "c", "d", "e", "f", "g", "h", "i", "j", "k", "l", "m",
               "n", "o", "p", "q", "r", "s", "t", "u", "v", "w", "x", "y", "z">>

\* str.lower() on one character
LowerChar(c) ==
    IF \E i \in 1..Len(UpperCase) : UpperCase[i] = c
    THEN LowerCase[CHOOSE i \in 1..Len(UpperCase) : UpperCase[i] = c]
    ELSE c

----------------------------------------------------------------------------
(* gpt/cli.py: the config registry *)

RegistryKeys ==
    { <<"b", "a", "b", "y">>,
      <<"s", "m", "a", "l", "l">>,
      <<"s", "m", "a", "l", "l", "_", "c", "h", "a", "r">>,
      <<"s", "m", "a", "l", "l", "_", "c", "h", "a", "r", "_", "o", "n", "e", "_",
        "c", "y", "c", "l", "e">>,
      <<"s", "m", "a", "l", "l", "_", "c", "h", "a", "r", "_", "o", "n", "e", "_",
        "c", "y", "c", "l", "e", "_", "v", "2">>,
      <<"m", "i", "n", "i", "_", "v", "0">>,
      <<"m", "i", "n", "i", "_", "v", "1">> }

\* config.replace("-", "_").lower()
NormalizeKey(name) ==
    [i \in 1..Len(name) |-> LowerChar(IF name[i] = "-" THEN "_" ELSE name[i])]

\* A faulty variant: an unknown name falls back to a default entry (dict.get with a default).
get_model_default(name) ==
    IF NormalizeKey(name) \in RegistryKeys
    THEN [raises |-> None, value |-> NormalizeKey(name)]
    ELSE [raises |-> None, value |-> <<"b", "a", "b", "y">>]

\* get_model: the registry entry of the config (named by its key), or KeyError
get_model(name) ==
    IF NormalizeKey(name) \in RegistryKeys
    THEN [raises |-> None, value |-> NormalizeKey(name)]
    ELSE [raises |-> "KeyError", value |-> <<>>]

\* config names tried: "baby", "Mini-V1", "MINI_V1", "gpt5", "mini v1"
ConfigInputs ==
    { <<"b", "a", "b", "y">>,
      <<"M", "i", "n", "i", "-", "V", "1">>,
      <<"M", "I", "N", "I", "_", "V", "1">>,
      <<"g", "p", "t", "5">>,
      <<"m", "i", "n", "i", " ", "v", "1">> }

----------------------------------------------------------------------------
(* The repository and the two functions that inspect it *)

\* tag names a repository may hold, in the order repo.tags lists them (by name):
\* "latest", "v1.2", "v1.2.3", "v1.2.3-rc"
TagPool ==
    << <<"l", "a", "t", "e", "s", "t">>,
       <<"v", "1", ".", "2">>,
       <<"v", "1", ".", "2", ".", "3">>,
       <<"v", "1", ".", "2", ".", "3", "-", "r", "c">> >>

\* where a tag of the pool points: no such tag, the HEAD commit, another commit
TagTargets == {"absent", "head", "other"}

NoRepo == [inRepo |-> FALSE, headValid |-> FALSE,
           tags |-> [i \in 1..Len(TagPool) |-> "absent"],
           staged |-> FALSE, unstaged |-> FALSE]

\* a repository without a commit holds no tag
EmptyRepo == [NoRepo EXCEPT !.inRepo = TRUE]

Repos ==
    {NoRepo, EmptyRepo} \cup
    [inRepo : {TRUE}, headValid : {TRUE},
     tags : [1..Len(TagPool) -> TagTargets],
     staged : BOOLEAN,      \* the index differs from HEAD
     unstaged : BOOLEAN]    \* the working tree differs from the index

RECURSIVE SkipDigits(_, _)
\* the first position at or after i of s that holds no digit (\d+ is greedy)
SkipDigits(s, i) ==
    IF i <= Len(s) /\ s[i] \in Digits THEN SkipDigits(s, i + 1) ELSE i

\* re.match(r"v\d+\.\d+\.\d+", s): the pattern matches a prefix of s
VersionPattern(s) ==
    LET b == SkipDigits(s, 2)
        c == SkipDigits(s, b + 1)
        d == SkipDigits(s, c + 1)
    IN  /\ Len(s) >= 1 /\ s[1] = "v"
        /\ b > 2 /\ b <= Len(s) /\ s[b] = "."
        /\ c > b + 1 /\ c <= Len(s) /\ s[c] = "."
        /\ d > c + 1

RECURSIVE TagLoop(_, _)
\* cli.py 22-27: for tag in repo.tags ... break / else raise
TagLoop(r, i) ==
    IF i > Len(TagPool) THEN FALSE
    ELSE IF r.tags[i] = "head" /\ VersionPattern(TagPool[i]) THEN TRUE
    ELSE TagLoop(r, i + 1)

\* check_for_repo_versioned_without_uncommited_changes: the value it returns
\* ("False", None) or the exception it raises
check_for_repo_versioned_without_uncommited_changes(r) ==
    IF ~r.inRepo THEN "False"                        \* except InvalidGitRepositoryError
    ELSE IF ~r.headValid THEN "NotARepository"
    ELSE IF ~TagLoop(r, 1) THEN "NoVersionTag"
    ELSE IF r.unstaged THEN "UncommittedChanges"     \* repo.index.diff(None)
    ELSE None

GateErrors == {"NotARepository", "NoVersionTag", "UncommittedChanges"}

RECURSIVE FirstHeadTag(_, _)
\* train.py 25-26: the first tag of repo.tags on the HEAD commit, 0 if none
FirstHeadTag(r, i) ==
    IF i > Len(TagPool) THEN 0
    ELSE IF r.tags[i] = "head" THEN i
    ELSE FirstHeadTag(r, i + 1)

NoName == [ok |-> FALSE, tag |-> <<>>, nonce |-> 0]

\* get_run_name_from_git_tag: [err] when it raises, [tag] when it returns
\* f"run-{tag.name}-{uuid4()}" (the nonce is drawn by the caller)
get_run_name_from_git_tag(r) ==
    IF ~r.inRepo THEN [err |-> "InvalidGitRepositoryError", tag |-> <<>>]
    ELSE IF ~r.headValid THEN [err |-> "NotARepository", tag |-> <<>>]
    ELSE LET i == FirstHeadTag(r, 1)
         IN  IF i = 0 THEN [err |-> "NoVersionTag", tag |-> <<>>]
             ELSE IF ~VersionPattern(TagPool[i])
                  THEN [err |-> "AssertionError", tag |-> <<>>]
                  ELSE [err |-> None, tag |-> TagPool[i]]

----------------------------------------------------------------------------
(* gpt/cli.py train, gpt/train.py train: one run *)

trainInputs == <<config, dirty, log_periodicity, global_rank, repo>>

\* an exception leaves the current frame
Raise(e, at) ==
    /\ error' = e
    /\ errorAt' = at
    /\ pc' = "unwind"

NoRaise == UNCHANGED <<error, errorAt>>

\* prepare_data is not running
PrepIdle ==
    /\ n_articles = <<>> /\ tokenizer = None /\ block_size = 0 /\ source = <<>>
    /\ ppc = "idle" /\ mode = None /\ texts = <<>> /\ todo = <<>> /\ tokens = <<>>
    /\ split = [train |-> <<>>, test |-> <<>>]
    /\ disk = [f \in {"dataset_dict.json", "train", "test"} |-> "none"]
    /\ perr = None

Init ==
    /\ config \in ConfigInputs
    /\ dirty \in BOOLEAN
    /\ log_periodicity \in 0..MaxPeriod
    /\ global_rank \in {0, 1}
    /\ repo \in Repos
    /\ pc = "gate"
    /\ gate = "notrun"
    /\ printed = FALSE
    /\ dm_built = FALSE
    /\ model_built = FALSE
    /\ run = "none"
    /\ run_name = NoName
    /\ prepared = FALSE
    /\ batch_idx = 0
    /\ steps = 0
    /\ samples = 0
    /\ fitted = FALSE
    /\ uploads = 0
    /\ outcome = "running"
    /\ error = None
    /\ errorAt = None
    /\ PrepIdle

\* cli.py 61-62: if dirty is False: check_for_repo_versioned_without_uncommited_changes()
Gate ==
    /\ pc = "gate"
    /\ IF dirty
       THEN /\ gate' = "skipped"
            /\ pc' = "get_model"
            /\ NoRaise
       ELSE LET g == check_for_repo_versioned_without_uncommited_changes(repo)
            IN  /\ gate' = g
                /\ IF g \in GateErrors
                   THEN Raise(g, "gate")
                   ELSE pc' = "get_model" /\ NoRaise
    /\ UNCHANGED <<trainInputs, printed, dm_built, model_built, run, run_name, prepared,
                   batch_idx, steps, samples, fitted, uploads, outcome, prepVars>>

\* cli.py 64-70: try: model_config = get_model(config) except KeyError: print; return
ResolveConfig ==
    /\ pc = "get_model"
    /\ IF get_model(config).raises = "KeyError"
       THEN /\ printed' = TRUE
            /\ outcome' = "returned"
            /\ pc' = "done"
       ELSE /\ pc' = "construct"
            /\ UNCHANGED <<printed, outcome>>
    /\ UNCHANGED <<trainInputs, gate, dm_built, model_built, run, run_name, prepared,
                   batch_idx, steps, samples, fitted, uploads, error, errorAt, prepVars>>

\* cli.py 72-75: dm = WikipediaDataModule(...); model = GptLightning(...); train_(...)
Construct ==
    /\ pc = "construct"
    /\ dm_built' = TRUE
    /\ model_built' = TRUE
    /\ pc' = "manager"
    /\ UNCHANGED <<trainInputs, gate, printed, run, run_name, prepared, batch_idx, steps,
                   samples, fitted, uploads, outcome, error, errorAt, prepVars>>

\* train.py 75: silent=dirty
silent == dirty

\* train.py 58-68: with manager() as run -- nullcontext, or
\* wandb.init(..., name=get_run_name_from_git_tag())
Manager ==
    /\ pc = "manager"
    /\ IF silent
       THEN /\ run' = "nullcontext"
            /\ pc' = "prepare_data"
            /\ NoRaise
            /\ UNCHANGED run_name
       ELSE LET n == get_run_name_from_git_tag(repo)
            IN  IF n.err # None
                THEN /\ Raise(n.err, "get_run_name_from_git_tag")
                     /\ UNCHANGED <<run, run_name>>
                ELSE \E nonce \in 1..MaxNonce, ok \in BOOLEAN :
                        /\ run_name' = [ok |-> TRUE, tag |-> n.tag, nonce |-> nonce]
                        /\ IF ok
                           THEN run' = "open" /\ pc' = "prepare_data" /\ NoRaise
                           ELSE Raise("WandbError", "wandb.init") /\ UNCHANGED run
    /\ UNCHANGED <<trainInputs, gate, printed, dm_built, model_built, prepared, batch_idx,
                   steps, samples, fitted, uploads, outcome, prepVars>>

\* train.py 69: dm.prepare_data()
PrepareData ==
    /\ pc = "prepare_data"
    /\ prepared' = TRUE
    /\ \E ok \in BOOLEAN :
          IF ok THEN pc' = "setup" /\ NoRaise ELSE Raise("DataError", "prepare_data")
    /\ UNCHANGED <<trainInputs, gate, printed, dm_built, model_built, run, run_name,
                   batch_idx, steps, samples, fitted, uploads, outcome, prepVars>>

\* train.py 70: dm.setup()
Setup ==
    /\ pc = "setup"
    /\ \E ok \in BOOLEAN :
          IF ok THEN pc' = "pre_fit" /\ NoRaise ELSE Raise("DataError", "setup")
    /\ UNCHANGED <<trainInputs, gate, printed, dm_built, model_built, run, run_name,
                   prepared, batch_idx, steps, samples, fitted, uploads, outcome, prepVars>>

\* train.py 72-101: the statistics, the example batch, the loggers, the callbacks
\* and the Trainer
PreFit ==
    /\ pc = "pre_fit"
    /\ \E ok \in BOOLEAN :
          IF ok THEN pc' = "batch_start" /\ NoRaise ELSE Raise("EngineError", "pre_fit")
    /\ UNCHANGED <<trainInputs, gate, printed, dm_built, model_built, run, run_name,
                   prepared, batch_idx, steps, samples, fitted, uploads, outcome, prepVars>>

\* train.py 86: wandb_logger = None if silent else WandbLogger()
\* what can fail inside the hook: generate, the decoder, and log_text when there
\* is a wandb_logger
HookFaults ==
    {None, "GenerateError", "DecodeError"} \cup (IF silent THEN {} ELSE {"SinkError"})

\* train.py 39-47: LogGenerationPeriodically.on_train_batch_start, called by the
\* engine before the training step of batch_idx
on_train_batch_start ==
    /\ pc = "batch_start"
    /\ IF log_periodicity = 0
       THEN /\ Raise("ZeroDivisionError", "on_train_batch_start")   \* batch_idx % 0
            /\ UNCHANGED samples
       ELSE IF batch_idx % log_periodicity = 0 /\ global_rank = 0
       THEN \E fault \in HookFaults :
               IF fault = None
               THEN samples' = samples + 1 /\ pc' = "training_step" /\ NoRaise
               ELSE Raise(fault, "on_train_batch_start") /\ UNCHANGED samples
       ELSE pc' = "training_step" /\ NoRaise /\ UNCHANGED samples
    /\ UNCHANGED <<trainInputs, gate, printed, dm_built, model_built, run, run_name,
                   prepared, batch_idx, steps, fitted, uploads, outcome, prepVars>>

\* train.py 102: trainer.fit(model, dm) -- one training step of the engine; after
\* the last batch fit returns
training_step ==
    /\ pc = "training_step"
    /\ \E ok \in BOOLEAN :
          IF ok
          THEN /\ steps' = steps + 1
               /\ batch_idx' = batch_idx + 1
               /\ fitted' = (batch_idx + 1 = MaxBatches)
               /\ pc' = IF batch_idx + 1 = MaxBatches THEN "upload" ELSE "batch_start"
               /\ NoRaise
          ELSE /\ Raise("EngineError", "training_step")
               /\ UNCHANGED <<steps, batch_idx, fitted>>
    /\ UNCHANGED <<trainInputs, gate, printed, dm_built, model_built, run, run_name,
                   prepared, samples, uploads, outcome, prepVars>>

\* A faulty variant: the checkpoint is uploaded in dirty runs too.
UploadAlways(s) == TRUE

\* train.py 103: if not silent
ShouldUpload(s) == ~s

\* train.py 103-108: torch.save to a temporary file, wandb.Artifact, run.log_artifact
Upload ==
    /\ pc = "upload"
    /\ IF ShouldUpload(silent)
       THEN \E fault \in {None, "SaveError", "UploadError"} :
               IF fault = None
               THEN uploads' = uploads + 1 /\ pc' = "return" /\ NoRaise
               ELSE Raise(fault, "upload") /\ UNCHANGED uploads
       ELSE pc' = "return" /\ NoRaise /\ UNCHANGED uploads
    /\ UNCHANGED <<trainInputs, gate, printed, dm_built, model_built, run, run_name,
                   prepared, batch_idx, steps, samples, fitted, outcome, prepVars>>

\* train.py 109: return model -- the with block is left, cli.train returns
Return ==
    /\ pc = "return"
    /\ run' = IF run = "open" THEN "finished" ELSE run
    /\ outcome' = "returned"
    /\ pc' = "done"
    /\ UNCHANGED <<trainInputs, gate, printed, dm_built, model_built, run_name, prepared,
                   batch_idx, steps, samples, fitted, uploads, error, errorAt, prepVars>>

\* no except clause in train.train nor in cli.train: the exception leaves the with
\* block (an open run is finished) and reaches the caller of cli.train
Unwind ==
    /\ pc = "unwind"
    /\ run' = IF run = "open" THEN "finished" ELSE run
    /\ outcome' = "raised"
    /\ pc' = "done"
    /\ UNCHANGED <<trainInputs, gate, printed, dm_built, model_built, run_name, prepared,
                   batch_idx, steps, samples, fitted, uploads, error, errorAt, prepVars>>

Next ==
    \/ Gate
    \/ ResolveConfig
    \/ Construct
    \/ Manager
    \/ PrepareData
    \/ Setup
    \/ PreFit
    \/ on_train_batch_start
    \/ training_step
    \/ Upload
    \/ Return
    \/ Unwind

Spec == Init /\ [][Next]_vars

----------------------------------------------------------------------------
(* gpt/convert_wikipedia.py *)

\* an optional integer: <<>> is None, <<n>> is the integer n
NoInt == <<>>
Some(n) == <<n>>

\* document texts the corpus source may hold: "", "a", "ab", "ba", "aba", "abab"
Texts ==
    { <<>>, <<"a">>, <<"a", "b">>, <<"b", "a">>, <<"a", "b", "a">>,
      <<"a", "b", "a", "b">> }

RECURSIVE SeqsUpTo(_, _)
\* the sequences over S of length at most n
SeqsUpTo(S, n) ==
    IF n = 0 THEN {<<>>}
    ELSE LET shorter == SeqsUpTo(S, n - 1)
         IN  shorter \cup {Append(q, x) : q \in {r \in shorter : Len(r) = n - 1}, x \in S}

\* CharTokenizer.encode: one id per character
CharEncode(text) ==
    [i \in 1..Len(text) |-> IF text[i] = "a" THEN 1 ELSE 2]

RECURSIVE SubwordEncode(_)
\* AutoTokenizer.from_pretrained(name).encode: a subword vocabulary holding the
\* characters and the pair "ab"
SubwordEncode(text) ==
    IF text = <<>> THEN <<>>
    ELSE IF Len(text) >= 2 /\ text[1] = "a" /\ text[2] = "b"
         THEN <<3>> \o SubwordEncode(SubSeq(text, 3, Len(text)))
         ELSE CharEncode(<<text[1]>>) \o SubwordEncode(Tail(text))

\* convert_wikipedia.py 45-50, 68: tokenize=tokenizer.encode
Encode(tok, text) ==
    IF tok = None THEN CharEncode(text) ELSE SubwordEncode(text)

\* A faulty variant: a sequence of exactly min_block_size tokens is dropped.
KeepLonger(toks, min_block_size) == min_block_size < Len(toks)

\* convert_wikipedia.py 32: if min_block_size <= len(tokens)
Keep(toks, min_block_size) == min_block_size <= Len(toks)

RECURSIVE wikipedia_batch_process(_, _, _)
\* convert_wikipedia.py 28-34: the "tokens" column of one batch of texts
wikipedia_batch_process(batch, tok, min_block_size) ==
    IF batch = <<>> THEN <<>>
    ELSE LET toks == Encode(tok, Head(batch))
         IN  (IF Keep(toks, min_block_size) THEN <<toks>> ELSE <<>>)
             \o wikipedia_batch_process(Tail(batch), tok, min_block_size)

\* convert_wikipedia.py 52: if n_articles -- None and 0 are false
Truthy(n) == n # NoInt /\ n # Some(0)

\* convert_wikipedia.py 74: test_size=0.0025, in ten-thousandths
TestSizePer10000 == 25

\* train_test_split: n_test = ceil(test_size * n), n_train = n - n_test
NTest(n) == (n * TestSizePer10000 + 9999) \div 10000

\* the files save_to_disk writes under dataset_uri, in the order it writes them
DiskFiles == <<"dataset_dict.json", "train", "test">>

DiskAll(v) == [f \in {DiskFiles[i] : i \in 1..Len(DiskFiles)} |-> v]

Permutations(n) ==
    {p \in [1..n -> 1..n] : \A i, j \in 1..n : p[i] = p[j] => i = j}

PrepFail(e) ==
    /\ perr' = e
    /\ ppc' = "done"

TrainIdle ==
    /\ config = <<>> /\ dirty = TRUE /\ log_periodicity = 1 /\ global_rank = 0
    /\ repo = NoRepo /\ pc = "idle" /\ gate = "notrun" /\ printed = FALSE
    /\ dm_built = FALSE /\ model_built = FALSE /\ run = "none" /\ run_name = NoName
    /\ prepared = FALSE /\ batch_idx = 0 /\ steps = 0 /\ samples = 0
    /\ fitted = FALSE /\ uploads = 0 /\ outcome = "running" /\ error = None
    /\ errorAt = None

InitPrep ==
    /\ n_articles \in {NoInt} \cup {Some(n) : n \in -1..(MaxDocs + 1)}
    /\ tokenizer \in {None, "subword"}
    /\ block_size \in 0..MaxBlock
    /\ source \in SeqsUpTo(Texts, MaxDocs)
    /\ disk \in {DiskAll("none"), DiskAll("old")}
    /\ ppc = "tokenizer"
    /\ mode = None
    /\ texts = <<>>
    /\ todo = <<>>
    /\ tokens = <<>>
    /\ split = [train |-> <<>>, test |-> <<>>]
    /\ perr = None
    /\ TrainIdle

prepInputs == <<n_articles, tokenizer, block_size, source>>

\* convert_wikipedia.py 45-50: AutoTokenizer.from_pretrained(tokenizer) or CharTokenizer()
LoadTokenizer ==
    /\ ppc = "tokenizer"
    /\ IF tokenizer # None
       THEN \E ok \in BOOLEAN :
               IF ok THEN ppc' = "acquire" /\ UNCHANGED perr
               ELSE PrepFail("TokenizerLoadError")
       ELSE ppc' = "acquire" /\ UNCHANGED perr
    /\ UNCHANGED <<prepInputs, mode, texts, todo, tokens, split, disk, trainVars>>

\* convert_wikipedia.py 52-64: stream n_articles rows, or load the whole split
Acquire ==
    /\ ppc = "acquire"
    /\ \E ok \in BOOLEAN :
          IF ~ok
          THEN PrepFail("SourceError") /\ UNCHANGED <<mode, texts, todo>>
          ELSE IF Truthy(n_articles)
          THEN LET n == n_articles[1]
               IN  IF n > Len(source)
                   THEN \* next(iter_ds) on the exhausted stream
                        PrepFail("StopIteration") /\ UNCHANGED <<mode, texts, todo>>
                   ELSE /\ mode' = "stream"
                        /\ texts' = SubSeq(source, 1, n)    \* range(n) is empty for n < 0
                        /\ todo' = texts'
                        /\ ppc' = "map"
                        /\ UNCHANGED perr
          ELSE /\ mode' = "bulk"
               /\ texts' = source
               /\ todo' = texts'
               /\ ppc' = "map"
               /\ UNCHANGED perr
    /\ UNCHANGED <<prepInputs, tokens, split, disk, trainVars>>

\* convert_wikipedia.py 36-41, 66-72: ds.map(wikipedia_batch_process, batched=True),
\* one batch; min_block_size=block_size + 1
MapBatch ==
    /\ ppc = "map"
    /\ IF todo = <<>>
       THEN ppc' = "split" /\ UNCHANGED <<todo, tokens, perr>>
       ELSE \E ok \in BOOLEAN :
               IF ok
               THEN LET k == IF Len(todo) < BatchSize THEN Len(todo) ELSE BatchSize
                    IN  /\ tokens' = tokens \o wikipedia_batch_process(
                                         SubSeq(todo, 1, k), tokenizer, block_size + 1)
                        /\ todo' = SubSeq(todo, k + 1, Len(todo))
                        /\ UNCHANGED <<ppc, perr>>
               ELSE PrepFail("TokenizeError") /\ UNCHANGED <<todo, tokens>>
    /\ UNCHANGED <<prepInputs, mode, texts, split, disk, trainVars>>

\* convert_wikipedia.py 74: ds.train_test_split(test_size=0.0025) -- a shuffle, the
\* first n_test rows are the test split, the others the train split
Split ==
    /\ ppc = "split"
    /\ LET n == Len(tokens)
           n_test == NTest(n)
           n_train == n - n_test
       IN  IF n_train = 0
           THEN PrepFail("ValueError") /\ UNCHANGED split
           ELSE \E p \in Permutations(n) :
                   /\ split' = [test |-> [i \in 1..n_test |-> tokens[p[i]]],
                                train |-> [i \in 1..n_train |-> tokens[p[n_test + i]]]]
                   /\ ppc' = "save"
                   /\ UNCHANGED perr
    /\ UNCHANGED <<prepInputs, mode, texts, todo, tokens, disk, trainVars>>

\* convert_wikipedia.py 75: ds.save_to_disk(dataset_uri) -- the files are written
\* in place one after the other; written counts those written before an I/O error
Save ==
    /\ ppc = "save"
    /\ \E written \in 0..Len(DiskFiles) :
          /\ disk' = [f \in DOMAIN disk |->
                        IF \E i \in 1..written : DiskFiles[i] = f THEN "new" ELSE disk[f]]
          /\ IF written = Len(DiskFiles)
             THEN ppc' = "done" /\ UNCHANGED perr
             ELSE PrepFail("OSError")
    /\ UNCHANGED <<prepInputs, mode, texts, todo, tokens, split, trainVars>>

NextPrep ==
    \/ LoadTokenizer
    \/ Acquire
    \/ MapBatch
    \/ Split
    \/ Save

SpecPrep == InitPrep /\ [][NextPrep]_vars

----------------------------------------------------------------------------
(* Properties of a `train` run (Spec) *)

\* a tag of the pool on the HEAD commit that the version pattern accepts
VersionTagOnHead(r) ==
    \E i \in 1..Len(TagPool) : r.tags[i] = "head" /\ VersionPattern(TagPool[i])

\* the config names of ConfigInputs that name no registry entry: "gpt5", "mini v1"
UnknownConfigInputs ==
    { <<"g", "p", "t", "5">>, <<"m", "i", "n", "i", " ", "v", "1">> }

\* C1: in strict mode, a run reaches dm.prepare_data() only if the working tree and
\* the index both equal HEAD and a version tag points at HEAD.
C1_PrepareOnlyOnCleanTaggedHead ==
    (~dirty /\ prepared) =>
        /\ repo.inRepo /\ repo.headValid
        /\ ~repo.unstaged /\ ~repo.staged
        /\ VersionTagOnHead(repo)

\* C2: in strict mode, whenever the repository has uncommitted changes (staged or
\* unstaged), the gate fails with UncommittedChanges, with or without a version tag
\* on HEAD.
C2_UncommittedChangesAlwaysReported ==
    (~dirty /\ gate # "notrun" /\ repo.inRepo /\ repo.headValid
        /\ (repo.staged \/ repo.unstaged))
    => gate = "UncommittedChanges"

\* C3: in strict mode, on a clean HEAD that carries a version tag, the gate passes
\* and once the run name has been asked for it was derived, with a version tag on
\* HEAD as its tag, whatever other tags point at HEAD.
C3_CleanTaggedHeadGivesRunIdentity ==
    (~dirty /\ repo.inRepo /\ repo.headValid /\ ~repo.staged /\ ~repo.unstaged
        /\ VersionTagOnHead(repo) /\ model_built /\ pc # "manager")
    => /\ gate = None
       /\ run_name.ok
       /\ \E i \in 1..Len(TagPool) :
             /\ repo.tags[i] = "head"
             /\ VersionPattern(TagPool[i])
             /\ run_name.tag = TagPool[i]
       /\ run_name.nonce \in 1..MaxNonce

\* C4: train with a config name that is not in the registry prints the error and
\* returns without raising, for every --dirty and every repository; nothing is
\* constructed.
C4_UnknownConfigAlwaysReturns ==
    (config \in UnknownConfigInputs) =>
        /\ ~model_built /\ ~dm_built /\ run = "none" /\ ~prepared
        /\ (pc = "done" => outcome = "returned" /\ printed /\ error = None)

\* C4, amended: with a config name that is not in the registry nothing is ever
\* constructed; the run prints the error and returns without raising unless the
\* strict-mode gate raised first, and then the gate's exception reaches the caller
\* and nothing is printed.
C4_UnknownConfigReturnsUnlessGateRaised ==
    (config \in UnknownConfigInputs) =>
        /\ ~model_built /\ ~dm_built /\ run = "none" /\ ~prepared /\ uploads = 0
        /\ (pc = "done" =>
              IF gate \in GateErrors
              THEN ~dirty /\ outcome = "raised" /\ error = gate /\ ~printed
              ELSE outcome = "returned" /\ printed /\ error = None)

\* C4 witness: a strict run on a repository that passes the gate, with an unknown
\* config name, has printed the error and returned.
C4_Witness ==
    /\ config \in UnknownConfigInputs /\ ~dirty /\ gate = None
    /\ pc = "done" /\ outcome = "returned" /\ printed

\* C5: in strict mode, when a precondition of the gate fails (not in a repository,
\* no version tag on HEAD, uncommitted changes), neither the model nor the
\* DataModule is constructed and no tracking run is opened.
C5_GateFailureConstructsNothing ==
    (~dirty /\ (\/ ~repo.inRepo
                \/ ~repo.headValid
                \/ ~VersionTagOnHead(repo)
                \/ repo.staged \/ repo.unstaged))
    => ~model_built /\ ~dm_built /\ run = "none"

\* C6: the checkpoint is uploaded at most once, only in a run that is not dirty and
\* after fit returned; a run in which prepare_data, setup or fit raised, and every
\* dirty run, has uploaded nothing, and an exception raised in the run reaches the
\* caller.
C6_UploadOnlyAfterStrictFit ==
    /\ uploads <= 1
    /\ (uploads = 1 => ~dirty /\ fitted /\ steps = MaxBatches /\ error = None)
    /\ (dirty => uploads = 0)
    /\ (errorAt \in {"prepare_data", "setup", "pre_fit", "on_train_batch_start",
                     "training_step"} => uploads = 0)
    /\ (pc = "done" /\ error # None => outcome = "raised")
    /\ (outcome = "raised" => error # None)

\* C6 witness: a strict run whose fit completed has uploaded the checkpoint and
\* returned.
C6_Witness ==
    /\ pc = "done" /\ ~dirty /\ fitted /\ uploads = 1 /\ outcome = "returned"

\* C7: a failure of model.generate, of the decoder or of log_text inside
\* on_train_batch_start never leaves the hook: no such exception is propagating
\* out of it, whatever the batch index and log_periodicity.
C7_HookFailureNeverPropagates ==
    ~(errorAt = "on_train_batch_start"
        /\ error \in {"GenerateError", "DecodeError", "SinkError"})

----------------------------------------------------------------------------
(* Properties of prepare_data (SpecPrep) *)

\* C8: when prepare_data raised, dataset_uri holds the previous complete output
\* or nothing: no file of a new split.
C8_FailureLeavesNoPartialSplit ==
    (ppc = "done" /\ perr # None) => disk \in {DiskAll("none"), DiskAll("old")}

\* the rows ds.map has processed
Processed == SubSeq(texts, 1, Len(texts) - Len(todo))

\* the encodings of the documents of ds that are at least block_size + 1 long
LongEnough(ds) ==
    SelectSeq([i \in 1..Len(ds) |-> Encode(tokenizer, ds[i])],
              LAMBDA e : Len(e) >= block_size + 1)

\* C9: the retained token sequences are exactly the encodings, whole and in order,
\* of the documents whose encoding has at least block_size + 1 tokens (a document
\* of exactly block_size + 1 tokens is retained, a shorter one contributes nothing),
\* and the persisted split holds exactly the retained sequences.
C9_RetainedExactlyLongEnough ==
    /\ tokens = LongEnough(Processed)
    /\ \A i \in 1..Len(tokens) : Len(tokens[i]) >= block_size + 1
    /\ \A i \in 1..Len(Processed) :
          LET e == Encode(tokenizer, Processed[i])
          IN  /\ Len(e) = block_size + 1 => \E j \in 1..Len(tokens) : tokens[j] = e
              /\ Len(e) < block_size + 1 => Len(tokens) < Len(Processed)
    /\ (ppc \in {"save", "done"} /\ perr = None) =>
          \E p \in Permutations(Len(tokens)) :
             split.test \o split.train = [i \in 1..Len(tokens) |-> tokens[p[i]]]

\* C9 witness: a split was persisted from a corpus with a document of exactly
\* block_size + 1 tokens (retained) and a shorter one (dropped).
C9_Witness ==
    /\ ppc = "done" /\ perr = None /\ todo = <<>>
    /\ \E i \in 1..Len(texts) : Len(Encode(tokenizer, texts[i])) = block_size + 1
    /\ \E i \in 1..Len(texts) : Len(Encode(tokenizer, texts[i])) < block_size + 1
    /\ Len(tokens) < Len(texts)

\* C10: documents are streamed, exactly n_articles of them, whenever n_articles is
\* an integer (0 included), and the whole corpus is loaded only when n_articles is
\* None.
C10_IntegerStreamsNoneLoadsAll ==
    (mode # None) =>
        IF n_articles = NoInt
        THEN mode = "bulk"
        ELSE mode = "stream" /\ (n_articles[1] >= 0 => Len(texts) = n_articles[1])

====
